---------------------------- MODULE Spec2Model ----------------------------
(***************************************************************************)
(* Model of the product-editing hooks of reaction-admin:                   *)
(*   useProduct            (src/unnamed/part_000, lines 125-401)           *)
(*   VariantInventoryForm  (src/unnamed/part_000, lines 441-605)           *)
(*   useVariantInventory   (simple-inventory/client/useVariantInventory.js)*)
(*                                                                         *)
(* The state is what a mounted product page holds: the route parameters,   *)
(* the hook arguments, the current shop id, the product delivered by the   *)
(* product query, the values the last render derived from them, the        *)
(* mutation calls that have not settled yet, and what the last step        *)
(* emitted to the outside (request, notifications, navigation, promise).   *)
(***************************************************************************)
EXTENDS Integers, Sequences, FiniteSets, Bags, TLC

VARIABLES
    routeParams,     \* useParams(): handle, variantId, optionId, shopId
    args,            \* the hook's args: productId, variantId, optionId
    currentShopId,   \* useCurrentShopId()
    product,         \* productQueryResult.product, the object held locally
    delivered,       \* the product as the last fetch delivered it
    hook,            \* what the last render of the hooks computed
    calls,           \* bag of invocations that have not settled
    effects,         \* what the last step emitted to the collaborators
    isSubmitting     \* VariantInventoryForm: useState(false)

vars == <<routeParams, args, currentShopId, product, delivered, hook, calls, effects, isSubmitting>>

(***************************************************************************)
(* Bounds                                                                  *)
(***************************************************************************)
MaxInFlight == 2     \* invocations that may be unsettled at the same time

(***************************************************************************)
(* JavaScript values                                                       *)
(***************************************************************************)
Undefined == "undefined"

\* ToBoolean of an id-like value: undefined and the empty string are falsy
Truthy(v) == v # Undefined /\ v # ""

\* a destructuring default applies only when the property is undefined
Default(v, d) == IF v = Undefined THEN d ELSE v

\* the value of a variable that holds no object
NoEntity == [_id |-> Undefined]

NoProduct == [loaded |-> FALSE]

\* Array.prototype.find by _id: the first match, or undefined
RECURSIVE Find(_, _)
Find(list, id) ==
    IF list = <<>> THEN NoEntity
    ELSE IF Head(list)._id = id THEN Head(list)
    ELSE Find(Tail(list), id)

(***************************************************************************)
(* Data the remote store can deliver                                       *)
(***************************************************************************)
\* the query asks for no options of an option: the field is absent
Option1 == [_id |-> "o1", isVisible |-> FALSE]
Variant1 == [_id |-> "v1", isVisible |-> TRUE, options |-> <<Option1>>]
Variant2 == [_id |-> "v2", isVisible |-> FALSE, options |-> <<>>]

SocialMetadataChoices == {<<>>, <<[service |-> "facebook", message |-> "hello"]>>}

ServerProducts ==
    [loaded : {TRUE}, _id : {"p1"}, isVisible : BOOLEAN,
     socialMetadata : SocialMetadataChoices,
     tags : {<<[_id |-> "t1"], [_id |-> "t2"]>>},
     variants : {<<Variant1, Variant2>>},
     added : {{}}]

(***************************************************************************)
(* Render: identifier resolution, entity location, social metadata         *)
(***************************************************************************)
\* ResolveId with the precedence reversed: explicit || routeParams.x
ResolveIdExplicitFirst(routeParam, explicit) ==
    IF Truthy(explicit) THEN explicit ELSE routeParam

\* routeParams.x || explicit
ResolveId(routeParam, explicit) == IF Truthy(routeParam) THEN routeParam ELSE explicit

\* optionId || variantId
ProductVariantId(optionId, variantId) == IF Truthy(optionId) THEN optionId ELSE variantId

\* if (product && variantId) variant = product.variants.find(...)
LocateVariant(prod, variantId) ==
    IF prod.loaded /\ Truthy(variantId) THEN Find(prod.variants, variantId) ELSE NoEntity

\* if (product && variantId && optionId): the guard of the option lookup
OptionGuard(prod, variantId, optionId) ==
    prod.loaded /\ Truthy(variantId) /\ Truthy(optionId)

\* variant.options.find(...) reads .options of undefined: a TypeError
OptionLookupThrows(prod, variantId, optionId) ==
    OptionGuard(prod, variantId, optionId) /\ LocateVariant(prod, variantId) = NoEntity

LocateOption(prod, variantId, optionId) ==
    IF OptionGuard(prod, variantId, optionId) /\ ~OptionLookupThrows(prod, variantId, optionId)
    THEN Find(LocateVariant(prod, variantId).options, optionId)
    ELSE NoEntity

\* HasChildVariants reading a field the entities do not have
HasChildVariantsOfWrongField(currentVariant) ==
    /\ currentVariant # NoEntity
    /\ "variants" \in DOMAIN currentVariant
    /\ Len(currentVariant.variants) > 0

\* currentVariant && Array.isArray(currentVariant.options) && currentVariant.options.length
HasChildVariants(currentVariant) ==
    /\ currentVariant # NoEntity
    /\ "options" \in DOMAIN currentVariant
    /\ Len(currentVariant.options) > 0

\* product[`${service}Msg`] = message, for every entry of socialMetadata
SocialMsgFields(prod) ==
    { <<prod.socialMetadata[i].service \o "Msg", prod.socialMetadata[i].message>> :
        i \in 1..Len(prod.socialMetadata) }

\* the product object after a render of useProduct has run over it
RenderedProduct(prod, threw) ==
    IF prod.loaded /\ ~threw
    THEN [prod EXCEPT !.added = prod.added \cup SocialMsgFields(prod)]
    ELSE prod

\* one render of useProduct / useVariantInventory over the same inputs
Render(route, a, shop, prod) ==
    LET productId == ResolveId(route.handle, a.productId)
        variantId == ResolveId(route.variantId, a.variantId)
        optionId == ResolveId(route.optionId, a.optionId)
        shopId == ResolveId(route.shopId, shop)
        threw == OptionLookupThrows(prod, variantId, optionId)
        variant == LocateVariant(prod, variantId)
        option == LocateOption(prod, variantId, optionId)
        currentVariant == IF option # NoEntity THEN option ELSE variant
    IN  [threw |-> threw,
         productId |-> productId,
         variantId |-> variantId,
         optionId |-> optionId,
         shopId |-> shopId,
         productVariantId |-> ProductVariantId(optionId, variantId),
         variant |-> IF threw THEN NoEntity ELSE variant,
         option |-> option,
         currentVariant |-> IF threw THEN NoEntity ELSE currentVariant,
         hasChildVariants |-> ~threw /\ HasChildVariants(currentVariant)]

(***************************************************************************)
(* What a step emits                                                       *)
(***************************************************************************)
NoRequest == [none |-> TRUE]
NoInput == [arg |-> "none"]

\* op: the operation; step: which part of its handler ran; input: the
\* argument it was invoked with; request: the mutation submitted in the step;
\* remote: how the awaited remote call ended; notifications: the toasts and
\* snackbars of the step; navigated: history.push ran; promise: the state of
\* the promise the operation returned.
Effects(op, step, input, request, remote, notifications, navigated, promise) ==
    [op |-> op, step |-> step, input |-> input, request |-> request,
     remote |-> remote, notifications |-> notifications,
     navigated |-> navigated, promise |-> promise]

NoEffects == Effects("none", "none", NoInput, NoRequest, "none", <<>>, FALSE, "none")

(***************************************************************************)
(* Environment steps: each re-renders the hooks                            *)
(***************************************************************************)
NoArgs == [productId |-> Undefined, variantId |-> Undefined, optionId |-> Undefined]

\* the product routes of the page: /products/:handle/:variantId?/:optionId?
Routes ==
    { [handle |-> "p1", variantId |-> v, optionId |-> o, shopId |-> Undefined] :
        <<v, o>> \in { <<Undefined, Undefined>>, <<"v1", Undefined>>,
                       <<"v1", "o1">>, <<"v2", Undefined>> } }

Rerender(route, a, shop, prod) ==
    LET r == Render(route, a, shop, prod)
    IN  /\ hook' = r
        /\ product' = RenderedProduct(prod, r.threw)

Init ==
    /\ routeParams \in Routes
    /\ args = NoArgs
    /\ currentShopId = Undefined
    /\ product = NoProduct
    /\ delivered = NoProduct
    /\ hook = Render(routeParams, args, currentShopId, product)
    /\ calls = EmptyBag
    /\ effects = NoEffects
    /\ isSubmitting = FALSE

Navigate ==
    \E r \in Routes :
        /\ r # routeParams
        /\ routeParams' = r
        /\ Rerender(r, args, currentShopId, product)
        /\ effects' = NoEffects
        /\ UNCHANGED <<args, currentShopId, delivered, calls, isSubmitting>>

ShopIdChanges ==
    \E s \in {Undefined, "s0"} :
        /\ s # currentShopId
        /\ currentShopId' = s
        /\ Rerender(routeParams, args, s, product)
        /\ effects' = NoEffects
        /\ UNCHANGED <<routeParams, args, delivered, calls, isSubmitting>>

\* the product query delivers a result (first load, refetch, cache update)
FetchProduct ==
    \E p \in ServerProducts :
        /\ delivered' = p
        /\ Rerender(routeParams, args, currentShopId, p)
        /\ effects' = NoEffects
        /\ UNCHANGED <<routeParams, args, currentShopId, calls, isSubmitting>>

(***************************************************************************)
(* Mutation operations of useProduct and useVariantInventory               *)
(***************************************************************************)
\* the operations that take a shopId override in their argument object
ShopOverrideOps ==
    {"createVariant", "updateProduct", "deleteTag", "updateVariant",
     "toggleVariantVisibility", "updateInventory", "recalculateReserved"}

\* overrides a caller may pass
ShopOverrides == {Undefined, "s2"}
VariantOverrides == {Undefined, "v2"}

\* the argument object of an operation; arg = "undefined": called with no argument
Input(arg, shopId, productVariantId, variant, tag) ==
    [arg |-> arg, shopId |-> shopId, productVariantId |-> productVariantId,
     variant |-> variant, tag |-> tag]

\* the success and error message keys of each operation
SuccessKey(op) ==
    CASE op = "archive" -> "productDetailEdit.archiveProductsSuccess"
      [] op = "clone" -> "productDetailEdit.cloneProductSuccess"
      [] op = "createVariant" -> "productDetailEdit.addVariant"
      [] op = "deleteTag" -> "productDetailEdit.removeProductTagSuccess"
      [] OTHER -> "productDetailEdit.updateProductFieldSuccess"

ErrorKey(op) ==
    CASE op = "archive" -> "productDetailEdit.archiveProductsFail"
      [] op = "clone" -> "productDetailEdit.cloneProductFail"
      [] op = "createVariant" -> "productDetailEdit.addVariantFail"
      [] op \in {"deleteTag", "updateInventory", "recalculateReserved"} ->
            "productDetailEdit.removeProductTagFail"
      [] OTHER -> "productDetailEdit.updateProductFieldFail"

Notification(severity, key) == [severity |-> severity, key |-> key]

\* the statements after the awaited mutation in the try block
OnResolved(op) == <<Notification("success", SuccessKey(op))>>

\* OnRejected with the success toast placed after the try/catch
OnRejectedThenSuccess(op) ==
    <<Notification("error", ErrorKey(op)), Notification("success", SuccessKey(op))>>

\* the catch block
OnRejected(op) == <<Notification("error", ErrorKey(op))>>

\* NavigatesAfter with history.push placed after the try/catch
NavigatesAfterAnyOutcome(op, outcome) == op = "archive"

\* history.push(redirectUrl) follows the success toast of archive, in the try block
NavigatesAfter(op, outcome) == op = "archive" /\ outcome = "resolved"

\* getOpaqueIds([{ namespace, id }]) resolved
OpaqueId(namespace, id) == [opaque |-> TRUE, namespace |-> namespace, id |-> id]

\* the mutation of archive and of clone, submitted once the encoding resolved
OpaqueIdsRequest(c) ==
    [shopId |-> c.shopId, productIds |-> <<OpaqueId("Product", c.id)>>]

\* Not with the negation dropped: the value is sent as loaded
NotDropped(v) == v

\* !value
Not(v) == ~v

\* FilteredTagIds with the test inverted: _id === tagLocal._id
RECURSIVE FilteredTagIdsInverted(_, _)
FilteredTagIdsInverted(tags, tagId) ==
    IF tags = <<>> THEN <<>>
    ELSE IF Head(tags)._id = tagId
         THEN <<Head(tags)._id>> \o FilteredTagIdsInverted(Tail(tags), tagId)
         ELSE FilteredTagIdsInverted(Tail(tags), tagId)

\* productLocal.tags.nodes.filter(({ _id }) => _id !== tagLocal._id).map(({ _id }) => _id)
RECURSIVE FilteredTagIds(_, _)
FilteredTagIds(tags, tagId) ==
    IF tags = <<>> THEN <<>>
    ELSE IF Head(tags)._id # tagId
         THEN <<Head(tags)._id>> \o FilteredTagIds(Tail(tags), tagId)
         ELSE FilteredTagIds(Tail(tags), tagId)

CreateVariantRequest(in) ==
    [productId |-> product._id, shopId |-> Default(in.shopId, hook.shopId)]

ToggleProductVisibilityRequest ==
    [productId |-> product._id, shopId |-> hook.shopId,
     product |-> [isVisible |-> Not(product.isVisible)]]

UpdateProductRequest(in) ==
    [productId |-> product._id, shopId |-> Default(in.shopId, hook.shopId),
     product |-> "fields"]

DeleteTagRequest(in) ==
    [productId |-> product._id, shopId |-> Default(in.shopId, hook.shopId),
     product |-> [tagIds |-> FilteredTagIds(product.tags, in.tag)]]

UpdateVariantRequest(in) ==
    [shopId |-> Default(in.shopId, hook.shopId), variant |-> "fields",
     variantId |-> in.variant._id]

\* shopId: shopIdLocal = shopId._id, and shopId is a string
ToggleVariantVisibilityRequest(in) ==
    [variantId |-> in.variant._id, shopId |-> Default(in.shopId, Undefined),
     variant |-> [isVisible |-> Not(in.variant.isVisible)]]

\* productVariantId: productVariantIdLocal = productVariantId,
\* productVariantId: shopIdLocal = shopId
InventoryRequest(in) ==
    [productConfiguration |->
        [productId |-> hook.productId,
         productVariantId |-> Default(in.productVariantId, hook.productVariantId)],
     shopId |-> Default(in.productVariantId, hook.shopId)]

\* ...inventoryInput spread into the input of the request
UpdateInventoryRequest(in) == InventoryRequest(in) @@ [inventoryInput |-> "fields"]

Call(op, pc, shopId, id) == [op |-> op, pc |-> pc, shopId |-> shopId, id |-> id]

\* Submit with de-duplication: an invocation joins a request of the same
\* operation already in flight
SubmitCoalesced(inflight, c) ==
    IF BagIn(c, inflight) THEN inflight ELSE inflight (+) SetToBag({c})

\* the mutation function is called: one more request is in flight
Submit(inflight, c) == inflight (+) SetToBag({c})

Mounted == ~hook.threw /\ BagCardinality(calls) < MaxInFlight

\* An invocation of an operation that submits its mutation at once.
\* bindThrows: binding the parameters throws (the promise rejects);
\* tryThrows: the try block throws before the mutation is called (caught).
Invoke(op, in, bindThrows, tryThrows, request) ==
    /\ Mounted
    /\ IF bindThrows
       THEN /\ effects' = Effects(op, "invoke", in, NoRequest, "none", <<>>, FALSE, "rejected")
            /\ calls' = calls
       ELSE IF tryThrows
       THEN /\ effects' = Effects(op, "invoke", in, NoRequest, "none", OnRejected(op),
                                  NavigatesAfter(op, "threw"), "fulfilled")
            /\ calls' = calls
       ELSE /\ effects' = Effects(op, "invoke", in, request, "none", <<>>, FALSE, "pending")
            /\ calls' = Submit(calls, Call(op, "inflight", Undefined, Undefined))
    /\ UNCHANGED <<routeParams, args, currentShopId, product, delivered, hook, isSubmitting>>

\* onArchiveProduct(product, redirectUrl): product._id is read, then the encoding awaited
OnArchiveProduct ==
    /\ Mounted
    /\ LET in == Input("object", Undefined, Undefined, NoEntity, Undefined)
       IN  IF ~product.loaded
           THEN /\ effects' = Effects("archive", "invoke", in, NoRequest, "none", <<>>, FALSE, "rejected")
                /\ calls' = calls
           ELSE /\ effects' = Effects("archive", "invoke", in, NoRequest, "none", <<>>, FALSE, "pending")
                /\ calls' = calls (+) SetToBag({Call("archive", "encoding", hook.shopId, product._id)})
    /\ UNCHANGED <<routeParams, args, currentShopId, product, delivered, hook, isSubmitting>>

\* onCloneProduct(productId)
OnCloneProduct ==
    /\ Mounted
    /\ effects' = Effects("clone", "invoke", Input("object", Undefined, Undefined, NoEntity, Undefined),
                          NoRequest, "none", <<>>, FALSE, "pending")
    /\ calls' = calls (+) SetToBag({Call("clone", "encoding", hook.shopId, hook.productId)})
    /\ UNCHANGED <<routeParams, args, currentShopId, product, delivered, hook, isSubmitting>>

\* onCreateVariant({ shopId? }): the default of parentId reads product._id
OnCreateVariant ==
    \E s \in ShopOverrides :
        LET in == Input("object", s, Undefined, NoEntity, Undefined)
        IN  Invoke("createVariant", in, ~product.loaded, FALSE, CreateVariantRequest(in))

\* onToggleProductVisibility(): product._id is read inside the try block
OnToggleProductVisibility ==
    Invoke("toggleProductVisibility", Input("undefined", Undefined, Undefined, NoEntity, Undefined),
           FALSE, ~product.loaded, ToggleProductVisibilityRequest)

\* onUpdateProduct({ product, shopId? }): the default of productId reads product._id
OnUpdateProduct ==
    \E s \in ShopOverrides :
        LET in == Input("object", s, Undefined, NoEntity, Undefined)
        IN  Invoke("updateProduct", in, ~product.loaded, FALSE, UpdateProductRequest(in))

\* handleDeleteProductTag({ tag, shopId? })
HandleDeleteProductTag ==
    \E s \in ShopOverrides, t \in {"t1", "t2"} :
        LET in == Input("object", s, Undefined, NoEntity, t)
        IN  Invoke("deleteTag", in, ~product.loaded, FALSE, DeleteTagRequest(in))

\* onUpdateProductVariant({ variant, variantId, shopId? })
OnUpdateProductVariant ==
    \E s \in ShopOverrides :
        /\ hook.variant # NoEntity
        /\ LET in == Input("object", s, Undefined, hook.variant, Undefined)
           IN  Invoke("updateVariant", in, FALSE, FALSE, UpdateVariantRequest(in))

\* onToggleVariantVisibility({ variant, shopId? }): the default of shopId reads shopId._id
OnToggleVariantVisibility ==
    \E s \in ShopOverrides :
        /\ product.loaded
        /\ \E i \in 1..Len(product.variants) :
            LET in == Input("object", s, Undefined, product.variants[i], Undefined)
            IN  Invoke("toggleVariantVisibility", in,
                       s = Undefined /\ hook.shopId = Undefined, FALSE,
                       ToggleVariantVisibilityRequest(in))

\* onUpdateVariantInventoryInfo({ inventoryInput, productVariantId?, shopId? })
OnUpdateVariantInventoryInfo ==
    \E s \in ShopOverrides, v \in VariantOverrides :
        LET in == Input("object", s, v, NoEntity, Undefined)
        IN  Invoke("updateInventory", in, FALSE, FALSE, UpdateInventoryRequest(in))

\* onRecalculateReservedSimpleInventory({ productVariantId?, shopId? })
OnRecalculateReservedSimpleInventory ==
    \E s \in ShopOverrides, v \in VariantOverrides :
        LET in == Input("object", s, v, NoEntity, Undefined)
        IN  Invoke("recalculateReserved", in, FALSE, FALSE, InventoryRequest(in))

\* the Recalculate button of VariantInventoryForm: onRecalculateReservedSimpleInventory()
\* destructures its missing argument
RecalculateButtonClick ==
    /\ hook.currentVariant # NoEntity
    /\ ~hook.hasChildVariants
    /\ LET in == Input("undefined", Undefined, Undefined, NoEntity, Undefined)
       IN  Invoke("recalculateReserved", in, TRUE, FALSE, InventoryRequest(in))

(***************************************************************************)
(* The remote side settles a call                                          *)
(***************************************************************************)
Pending(pc) == { c \in BagToSet(calls) : c.pc = pc }

\* getOpaqueIds resolves: the mutation of archive / clone is submitted
EncodingResolves ==
    \E c \in Pending("encoding") :
        /\ calls' = Submit(calls (-) SetToBag({c}), Call(c.op, "inflight", Undefined, Undefined))
        /\ effects' = Effects(c.op, "encoded", NoInput, OpaqueIdsRequest(c), "none", <<>>, FALSE, "pending")
        /\ UNCHANGED <<routeParams, args, currentShopId, product, delivered, hook, isSubmitting>>

\* getOpaqueIds rejects: the await is outside the try block
EncodingRejects ==
    \E c \in Pending("encoding") :
        /\ calls' = calls (-) SetToBag({c})
        /\ effects' = Effects(c.op, "encodeFailed", NoInput, NoRequest, "none", <<>>, FALSE, "rejected")
        /\ UNCHANGED <<routeParams, args, currentShopId, product, delivered, hook, isSubmitting>>

Settle(c, outcome, notifications) ==
    /\ calls' = calls (-) SetToBag({c})
    /\ effects' = Effects(c.op, "settled", NoInput, NoRequest, outcome, notifications,
                          NavigatesAfter(c.op, outcome), "fulfilled")
    /\ UNCHANGED <<routeParams, args, currentShopId, product, delivered, hook, isSubmitting>>

MutationResolves == \E c \in Pending("inflight") : Settle(c, "resolved", OnResolved(c.op))

MutationRejects == \E c \in Pending("inflight") : Settle(c, "rejected", OnRejected(c.op))

Next ==
    \/ Navigate
    \/ ShopIdChanges
    \/ FetchProduct
    \/ OnArchiveProduct
    \/ OnCloneProduct
    \/ OnCreateVariant
    \/ OnToggleProductVisibility
    \/ OnUpdateProduct
    \/ HandleDeleteProductTag
    \/ OnUpdateProductVariant
    \/ OnToggleVariantVisibility
    \/ OnUpdateVariantInventoryInfo
    \/ OnRecalculateReservedSimpleInventory
    \/ RecalculateButtonClick
    \/ EncodingResolves
    \/ EncodingRejects
    \/ MutationResolves
    \/ MutationRejects

Spec == Init /\ [][Next]_vars

(***************************************************************************)
(* The render alone, over every combination of route parameters and        *)
(* explicit arguments                                                      *)
(***************************************************************************)
AllRoutes ==
    [handle : {Undefined, "p1"}, variantId : {Undefined, "v1", "v9"},
     optionId : {Undefined, "o1"}, shopId : {Undefined, "s1"}]

AllArgs ==
    [productId : {Undefined, "p1", "p2"}, variantId : {Undefined, "v1", "v2"},
     optionId : {Undefined, "o1", "o2"}]

AllShopIds == {Undefined, "s0", "s1"}

InitRender ==
    /\ routeParams \in AllRoutes
    /\ args \in AllArgs
    /\ currentShopId \in AllShopIds
    /\ product = NoProduct
    /\ delivered = NoProduct
    /\ hook = Render(routeParams, args, currentShopId, product)
    /\ calls = EmptyBag
    /\ effects = NoEffects
    /\ isSubmitting = FALSE

NavigateAnywhere ==
    \E r \in AllRoutes :
        /\ r # routeParams
        /\ routeParams' = r
        /\ Rerender(r, args, currentShopId, product)
        /\ UNCHANGED <<args, currentShopId, delivered, calls, effects, isSubmitting>>

NextRender == NavigateAnywhere \/ FetchProduct

SpecRender == InitRender /\ [][NextRender]_vars

(***************************************************************************)
(* Properties                                                              *)
(***************************************************************************)
Severities(notifications) ==
    [i \in 1..Len(notifications) |-> notifications[i].severity]

InFlightOf(op, bag) ==
    CopiesIn(Call(op, "inflight", Undefined, Undefined), bag)

\* C1: whenever the remote call of a mutation operation succeeds, the step
\* emits exactly one success notification and no error notification; whenever
\* it is rejected, the step emits exactly one error notification, no success
\* notification, and does not navigate.
C1_OneNotificationPerOutcome ==
    /\ effects.remote = "resolved" => Severities(effects.notifications) = <<"success">>
    /\ effects.remote = "rejected" =>
            /\ Severities(effects.notifications) = <<"error">>
            /\ ~effects.navigated

\* an archive mutation was rejected
C1_Witness ==
    /\ effects.op = "archive"
    /\ effects.remote = "rejected"
    /\ Len(effects.notifications) = 1

\* C2: whenever the remote mutation is rejected or the opaque-id encoding of
\* archive / clone fails, the operation emits an error notification and its
\* promise is fulfilled, not rejected.
C2_FailuresRecoveredLocally ==
    (effects.remote = "rejected" \/ effects.step = "encodeFailed") =>
        /\ Severities(effects.notifications) = <<"error">>
        /\ effects.promise = "fulfilled"

\* C3: an archive mutation comes to be in flight only in the step in which
\* its encoding resolved, carrying the encoded ids; and a step navigates only
\* when it is an in-flight archive mutation resolving.
C3_ArchiveOrder ==
    [][ /\ InFlightOf("archive", calls') > InFlightOf("archive", calls) =>
            /\ effects'.step = "encoded"
            /\ \E c \in Pending("encoding") :
                /\ c.op = "archive"
                /\ CopiesIn(c, calls') < CopiesIn(c, calls)
                /\ effects'.request.productIds = <<OpaqueId("Product", c.id)>>
        /\ (effects'.op = "archive" /\ effects'.request # NoRequest) =>
                InFlightOf("archive", calls') > InFlightOf("archive", calls)
        /\ effects'.navigated =>
            /\ effects'.op = "archive"
            /\ effects'.remote = "resolved"
            /\ InFlightOf("archive", calls') < InFlightOf("archive", calls)
      ]_vars

\* an archive mutation resolved and the page navigated
C3_Witness ==
    /\ effects.op = "archive"
    /\ effects.step = "settled"
    /\ effects.navigated

\* C4: the scan of variant.options is attempted only when a variant has been
\* resolved: no render performs the option lookup on an unresolved variant.
C4_NoLookupOnUnresolvedVariant == ~hook.threw

\* C5: the shopId of the request of every operation that accepts a shop id
\* override is the override when one is given and the resolved shop id
\* otherwise.
C5_ShopIdOverrideOrResolved ==
    (effects.step = "invoke" /\ effects.op \in ShopOverrideOps /\ effects.request # NoRequest) =>
        effects.request.shopId = Default(effects.input.shopId, hook.shopId)

\* C6: the Recalculate button (the operation invoked with no argument)
\* submits one recalculation request for the resolved (productId,
\* productVariantId) pair and its promise is left to settle with a
\* notification.
C6_RecalculateButtonSubmits ==
    (effects.op = "recalculateReserved" /\ effects.step = "invoke" /\ effects.input.arg = "undefined") =>
        /\ effects.request # NoRequest
        /\ effects.request.productConfiguration =
                [productId |-> hook.productId, productVariantId |-> hook.productVariantId]
        /\ effects.promise = "pending"

\* C7: each resolved id is the route parameter when it is present and the
\* explicit argument (the current shop id) only when it is absent.
C7_RouteParamPrecedence ==
    /\ hook.productId = IF routeParams.handle # Undefined THEN routeParams.handle ELSE args.productId
    /\ hook.variantId = IF routeParams.variantId # Undefined THEN routeParams.variantId ELSE args.variantId
    /\ hook.optionId = IF routeParams.optionId # Undefined THEN routeParams.optionId ELSE args.optionId
    /\ hook.shopId = IF routeParams.shopId # Undefined THEN routeParams.shopId ELSE currentShopId

\* route parameter and argument both present and different; another absent
C7_Witness ==
    /\ routeParams.handle = "p1" /\ args.productId = "p2" /\ hook.productId = "p1"
    /\ routeParams.variantId = Undefined /\ args.variantId = "v2" /\ hook.variantId = "v2"
    /\ routeParams.shopId = "s1" /\ currentShopId = "s0" /\ hook.shopId = "s1"

\* C8: the locally held product is what a fetch delivered: no render and no
\* mutation invocation adds or alters a field of it.
C8_LocalProductOnlyFromFetch == product = delivered

\* C9: an invocation that submits its mutation adds one request in flight
\* whatever is already in flight, and each settlement removes exactly one.
C9_NoCoalescing ==
    [][ /\ (effects'.step = "invoke" /\ effects'.request # NoRequest) =>
            /\ InFlightOf(effects'.op, calls') = InFlightOf(effects'.op, calls) + 1
            /\ BagCardinality(calls') = BagCardinality(calls) + 1
        /\ effects'.step = "settled" =>
            /\ InFlightOf(effects'.op, calls') = InFlightOf(effects'.op, calls) - 1
            /\ BagCardinality(calls') = BagCardinality(calls) - 1
      ]_vars

\* two requests of the same operation in flight, the second just submitted
C9_Witness ==
    /\ effects.step = "invoke"
    /\ effects.op = "toggleProductVisibility"
    /\ effects.request # NoRequest
    /\ InFlightOf("toggleProductVisibility", calls) >= 2

\* C10: a visibility toggle submits the negation of the isVisible of the
\* loaded product (of the variant passed in), and two toggles in succession
\* over the same loaded product submit the same value.
C10_ToggleSendsNegation ==
    [][ /\ (effects'.op = "toggleProductVisibility" /\ effects'.request # NoRequest) =>
            effects'.request.product.isVisible = (product'.isVisible = FALSE)
        /\ (effects'.op = "toggleVariantVisibility" /\ effects'.request # NoRequest) =>
            effects'.request.variant.isVisible = (effects'.input.variant.isVisible = FALSE)
        /\ ( /\ effects.op = "toggleProductVisibility" /\ effects.request # NoRequest
             /\ effects'.op = "toggleProductVisibility" /\ effects'.request # NoRequest
             /\ product' = product ) =>
            effects'.request.product.isVisible = effects.request.product.isVisible
      ]_vars

\* a visible product was toggled twice in succession
C10_Witness ==
    /\ effects.op = "toggleProductVisibility"
    /\ effects.request # NoRequest
    /\ product.isVisible
    /\ effects.request.product.isVisible = FALSE
    /\ InFlightOf("toggleProductVisibility", calls) >= 2

(***************************************************************************)
(* Tag deletion over every tag list of the product                         *)
(***************************************************************************)
MaxTags == 3     \* tags of a product

TagIds == {"t1", "t2", "t3"}

\* product.tags.nodes: every list of at most MaxTags tags
TagLists ==
    UNION { [1..n -> [_id : TagIds]] : n \in 0..MaxTags }

TaggedProducts ==
    [loaded : {TRUE}, _id : {"p1"}, isVisible : {TRUE},
     socialMetadata : {<<>>},
     tags : TagLists,
     variants : {<<Variant1, Variant2>>},
     added : {{}}]

InitTags == Init /\ routeParams.variantId = Undefined

\* the product query delivers a product with some tag list
FetchTaggedProduct ==
    \E p \in TaggedProducts :
        /\ delivered' = p
        /\ Rerender(routeParams, args, currentShopId, p)
        /\ effects' = NoEffects
        /\ UNCHANGED <<routeParams, args, currentShopId, calls, isSubmitting>>

\* handleDeleteProductTag({ tag }) for any tag, on the product or not
HandleDeleteAnyProductTag ==
    \E t \in TagIds :
        LET in == Input("object", Undefined, Undefined, NoEntity, t)
        IN  Invoke("deleteTag", in, ~product.loaded, FALSE, DeleteTagRequest(in))

NextTags ==
    \/ FetchTaggedProduct
    \/ HandleDeleteAnyProductTag
    \/ MutationResolves
    \/ MutationRejects

SpecTags == InitTags /\ [][NextTags]_vars

IdsOf(tags) == [i \in 1..Len(tags) |-> tags[i]._id]

\* C11: the tagIds submitted by a tag deletion are the ids of the product's
\* tags that differ from the deleted tag's id, in their original order.
C11_TagIdsFiltered ==
    (effects.op = "deleteTag" /\ effects.step = "invoke" /\ effects.request # NoRequest) =>
        effects.request.product.tagIds =
            SelectSeq(IdsOf(product.tags), LAMBDA id : id # effects.input.tag)

\* tags [t1, t2], delete t1: [t2] is submitted
C11_Witness ==
    /\ effects.op = "deleteTag"
    /\ product.loaded
    /\ IdsOf(product.tags) = <<"t1", "t2">>
    /\ effects.input.tag = "t1"
    /\ effects.request # NoRequest
    /\ effects.request.product.tagIds = <<"t2">>

(***************************************************************************)
(* VariantInventoryForm                                                    *)
(***************************************************************************)
\* isLoadingInventory || isLoadingProduct: both are read from the isLoading
\* property of the result of useQuery, which has none (its flag is loading)
IsLoadingInventoryInfo == Undefined

\* what the form renders
FormContent(h) ==
    IF h.currentVariant = NoEntity THEN "null"
    ELSE IF Truthy(IsLoadingInventoryInfo) THEN "loading"
    ELSE IF h.hasChildVariants THEN "noInventoryTracking"
    ELSE "form"

\* the update-inventory mutation in flight, awaited by onSubmit
FormCall == Call("updateInventory", "awaited", Undefined, Undefined)

\* IsSubmittingAfterAwait with the reset skipped when the mutation was rejected
IsSubmittingAfterAwaitUnlessRejected(outcome) == outcome = "rejected"

\* setIsSubmitting(false) follows the await of onUpdateVariantInventoryInfo,
\* whose promise is fulfilled whatever the outcome of the mutation
IsSubmittingAfterAwait(outcome) == FALSE

\* the Save button (enabled while dirty and not submitting): submitForm, onSubmit
FormSubmit ==
    /\ ~hook.threw
    /\ FormContent(hook) = "form"
    /\ ~isSubmitting
    /\ isSubmitting' = TRUE
    /\ LET in == Input("object", Undefined, Undefined, NoEntity, Undefined)
       IN  effects' = Effects("updateInventory", "submit", in, UpdateInventoryRequest(in),
                              "none", <<>>, FALSE, "pending")
    /\ calls' = Submit(calls, FormCall)
    /\ UNCHANGED <<routeParams, args, currentShopId, product, delivered, hook>>

\* the awaited mutation settles: the operation notifies, onSubmit resumes
FormSubmitSettles(outcome, notifications) ==
    /\ BagIn(FormCall, calls)
    /\ calls' = calls (-) SetToBag({FormCall})
    /\ effects' = Effects("updateInventory", "settled", NoInput, NoRequest, outcome,
                          notifications, NavigatesAfter("updateInventory", outcome), "fulfilled")
    /\ isSubmitting' = IsSubmittingAfterAwait(outcome)
    /\ UNCHANGED <<routeParams, args, currentShopId, product, delivered, hook>>

FormSubmitResolves == FormSubmitSettles("resolved", OnResolved("updateInventory"))

FormSubmitRejects == FormSubmitSettles("rejected", OnRejected("updateInventory"))

InitForm == Init

NextForm ==
    \/ Navigate
    \/ ShopIdChanges
    \/ FetchProduct
    \/ FormSubmit
    \/ FormSubmitResolves
    \/ FormSubmitRejects
    \/ RecalculateButtonClick

SpecForm == InitForm /\ [][NextForm]_vars

\* the awaited remote call settles
SpecFormFair == SpecForm /\ WF_vars(FormSubmitResolves \/ FormSubmitRejects)

HasOptions(entity) == "options" \in DOMAIN entity /\ entity.options # <<>>

\* a step taken from the form: its Save button or its Recalculate button
FormInitiated ==
    \/ effects.op = "updateInventory" /\ effects.step = "submit"
    \/ effects.op = "recalculateReserved" /\ effects.step = "invoke" /\ effects.input.arg = "undefined"

\* C12: when the current variant has a non-empty options list,
\* hasChildVariants is truthy and the form offers neither submit nor
\* recalculate; when its options list is empty or absent the editing form
\* is offered; and every step taken from the form is taken on a current
\* variant without options.
C12_NonLeafExcluded ==
    /\ hook.currentVariant # NoEntity =>
        /\ HasOptions(hook.currentVariant) <=> hook.hasChildVariants
        /\ HasOptions(hook.currentVariant) => FormContent(hook) = "noInventoryTracking"
        /\ ~HasOptions(hook.currentVariant) => FormContent(hook) = "form"
    /\ FormInitiated =>
        /\ hook.currentVariant # NoEntity
        /\ ~HasOptions(hook.currentVariant)

\* a variant with an option is selected and the form shows no editing form
C12_Witness ==
    /\ hook.currentVariant = Variant1
    /\ hook.hasChildVariants
    /\ FormContent(hook) = "noInventoryTracking"

\* C13: a form submission sets isSubmitting, isSubmitting is reset only by
\* the settlement of the update-inventory call, and isSubmitting never stays
\* true: it is reset whether the mutation resolved or was rejected.
C13_IsSubmittingReset ==
    /\ [][ /\ (effects'.op = "updateInventory" /\ effects'.step = "submit") => isSubmitting'
           /\ (isSubmitting /\ ~isSubmitting') =>
                (effects'.op = "updateInventory" /\ effects'.step = "settled")
           /\ (effects'.op = "updateInventory" /\ effects'.step = "settled") => ~isSubmitting'
         ]_vars
    /\ (isSubmitting ~> ~isSubmitting)

\* a submission whose mutation was rejected has reset isSubmitting
C13_Witness ==
    /\ effects.op = "updateInventory"
    /\ effects.step = "settled"
    /\ effects.remote = "rejected"
    /\ ~isSubmitting
=============================================================================
